---- MODULE Spec2Model ----
(***************************************************************************)
(* Verification model of the self-healing core of failsafe_recovery.py:    *)
(* BackupManager (checkpoint store), SystemHealthMonitor (health passes),  *)
(* and AutoRecoverySystem (failure classifier, recovery plans, executor).  *)
(***************************************************************************)
EXTENDS Integers, Sequences, FiniteSets, TLC

(***************************************************************************)
(* Bounds of the model and program constants.                              *)
(***************************************************************************)
MaxTime == 2
MaxCreates == 3
MaxConcCreates == 2
max_backups == 10

Min(a, b) == IF a <= b THEN a ELSE b

(***************************************************************************)
(* CHECKPOINT STORE: BackupManager                                         *)
(***************************************************************************)
VARIABLES
    now,            \* int(time.time()): the wall clock in whole seconds
    configFile,     \* /workspace/prometheus_config.json
    backup_dir,     \* the *.checkpoint records, in ascending st_mtime order
    issued,         \* history: the checkpoints returned by create_system_checkpoint
    nCreated,       \* history: number of create_system_checkpoint calls that returned
    preexisting,    \* history: number of records on disk when the manager was built
    last_op         \* history: the last operation and its outcome

\* Threads calling into the checkpoint store (no lock exists in BackupManager).
VARIABLES
    pc,             \* per thread: the statement of create/restore it is about to run
    local           \* per thread: the locals of the call it is in

\* The health monitor (SystemHealthMonitor).
VARIABLES
    health_checks,  \* the registry: one entry per probe, in registration order
    results,        \* the report returned by the latest run_health_checks
    passes,         \* history: number of passes run
    last_outcomes,  \* history: what each probe did in the latest pass
    passed_history, \* history: per probe, whether it passed, pass by pass
    health_history, \* self.health_history: the retained reports, oldest first
    produced,       \* history: the reports returned so far, in the order produced
    blocked_in      \* the probe whose call has not returned ("none": no call is pending)

\* The failure classifier (AutoRecoverySystem._classify_failure) applied to one record.
VARIABLES
    failure_record, \* the failure record handed to _classify_failure
    failure_type    \* the category it returned ("unclassified" before the call)

\* The recovery executor (AutoRecoverySystem._handle_health_issues and below).
VARIABLES
    rpc,               \* where the executor is: "idle", "classify" or "execute"
    critical_failures, \* health_results['critical_failures'] being handled
    fidx,              \* index of the failure being handled (0: a plan run on its own)
    cur_plan,          \* the plan _execute_recovery_plan is running or ran last
    step,              \* index of the plan's next step
    plan_result,       \* "none", "running", or what the last plan run returned
    step_log,          \* history: the handler calls of that plan run, with their results
    exec_log,          \* history: the handler calls since the handling began
    plan_log           \* history: the plan runs since the handling began

\* The checkpoint store with the files it reads and writes and the errors they raise.
\* (issued, nCreated and last_op are histories of the calls made one at a time or from
\* threads above; the calls below keep their own history in io_call.)
VARIABLES
    coreFile,       \* /workspace/prometheus_core.py, a critical file: "absent" or its content
    prometheus,     \* self.prometheus: "logger" when a core with a logger was given, "None"
    log,            \* the lines the last call wrote to prometheus.logger.system_logger
    returned,       \* what the last call gave its caller: a return value or a raised error
    artifacts,      \* the <id>_database.db and <id>_logs.tar.gz files of the directory
    liveDb,         \* /workspace/prometheus_data/prometheus.db: "live" or "restored"
    liveLogs,       \* /workspace/prometheus_logs: "live", "restored" or "removed"
    io_call         \* history: the last call, its inputs and the directory before it

\* The monitoring loop (AutoRecoverySystem.start_auto_recovery, stop_auto_recovery and
\* the threads running _recovery_loop).
VARIABLES
    running,         \* self.running
    recovery_thread, \* self.recovery_thread: the thread created last (0: None)
    starts,          \* history: number of start_auto_recovery calls, also of threads
    loops            \* per thread: where it is in _recovery_loop, and what it met

\* The failure counter of one probe under two callers of run_health_checks (no lock
\* exists in SystemHealthMonitor).
VARIABLES
    probe_entry,    \* the probe's registry entry (check_info): its failure_count
    callers,        \* per caller: where it is in the body of the loop, and its locals
    increments      \* history: failing executions counted since the count was last 0

storeVars == <<now, configFile, backup_dir, issued, nCreated, preexisting, last_op>>
ioVars == <<coreFile, prometheus, log, returned, artifacts, liveDb, liveLogs, io_call>>
loopVars == <<running, recovery_thread, starts, loops>>
threadVars == <<pc, local>>
healthVars ==
    <<health_checks, results, passes, last_outcomes, passed_history, health_history, produced,
      blocked_in>>
classifyVars == <<failure_record, failure_type>>
counterVars == <<probe_entry, callers, increments>>
recoveryVars ==
    <<rpc, critical_failures, fidx, cur_plan, step, plan_result, step_log, exec_log, plan_log>>
outsideStore == <<healthVars, classifyVars, counterVars, recoveryVars, ioVars, loopVars>>
notStore == <<threadVars, outsideStore>>
notHealth == <<storeVars, threadVars, classifyVars, counterVars, recoveryVars, ioVars, loopVars>>
notClassify == <<storeVars, threadVars, healthVars, counterVars, recoveryVars, ioVars, loopVars>>
vars ==
    <<storeVars, threadVars, healthVars, classifyVars, counterVars, recoveryVars, ioVars, loopVars>>

\* JSON documents a configuration file may hold; "empty" is the document {}.
Docs == {"empty", "docA"}
EmptyDoc == "empty"
\* json.dump(..., indent=2) writes the "indent2" layout; other writers may not.
Formats == {"compact", "indent2"}

AbsentFile == [kind |-> "absent", doc |-> "none", fmt |-> "none"]
InvalidFile == [kind |-> "invalid", doc |-> "none", fmt |-> "none"]
JsonFiles == {[kind |-> "json", doc |-> d, fmt |-> f] : d \in Docs, f \in Formats}
ConfigFiles == {AbsentFile, InvalidFile} \cup JsonFiles

\* json.load(f): the document of a well-formed file (it raises on "invalid").
json_load(file) == file.doc
\* json.dump(doc, f, indent=2): the file written for a document.
json_dump(doc) == [kind |-> "json", doc |-> doc, fmt |-> "indent2"]

\* configuration = {} ; if config_path.exists(): configuration = json.load(f)
read_configuration(file) ==
    IF file.kind = "absent" THEN EmptyDoc ELSE json_load(file)

\* checkpoint_id = f"checkpoint_{int(time.time())}": the id is the second.
new_checkpoint_id(t) == t

\* The ids of the records in a directory listing.
Ids(dir) == {dir[i].checkpoint_id : i \in 1..Len(dir)}

\* checkpoint_file.exists()
checkpoint_exists(dir, id) == id \in Ids(dir)

\* pickle.load of the record named by id.
load_checkpoint(dir, id) ==
    LET i == CHOOSE j \in 1..Len(dir) : dir[j].checkpoint_id = id IN dir[i]

\* open(checkpoint_file, 'wb'); pickle.dump: creates or overwrites the record
\* named by the id; the written file has the newest mtime.
SameIdDropped(dir, id) ==
    LET Other(r) == r.checkpoint_id # id IN SelectSeq(dir, Other)

write_checkpoint_file(dir, cp) == Append(SameIdDropped(dir, cp.checkpoint_id), cp)

Reverse(s) == [i \in 1..Len(s) |-> s[Len(s) + 1 - i]]

\* BackupManager._cleanup_old_backups: sort newest first, unlink [max_backups:].
\* checkpoint_files[self.max_backups:] of the listing sorted newest first.
old_checkpoints(dir) ==
    LET checkpoint_files == Reverse(dir)
    IN  [i \in 1..(Len(checkpoint_files) - Min(max_backups, Len(checkpoint_files))) |->
            checkpoint_files[max_backups + i].checkpoint_id]

\* old_checkpoint.unlink()
unlink(dir, id) == SameIdDropped(dir, id)

RECURSIVE unlink_all(_, _)
unlink_all(dir, ids) ==
    IF ids = << >> THEN dir ELSE unlink_all(unlink(dir, Head(ids)), Tail(ids))

_cleanup_old_backups(dir) == unlink_all(dir, old_checkpoints(dir))

\* The SystemCheckpoint assembled by create_system_checkpoint.
SystemCheckpoint(id, configuration) ==
    [checkpoint_id |-> id, configuration |-> configuration]

\* Records left by earlier runs: n records, older than every second of this run.
OldRecords(n) == [i \in 1..n |-> SystemCheckpoint(i - n - 1, EmptyDoc)]

Threads == {"loop", "manual"}
NoLocals == [checkpoint_id |-> 0, configuration |-> "none", old |-> << >>]

\* last_op when the last step was no call of the store.
NoOp == [op |-> "none", id |-> 0, ok |-> FALSE]

StoreInit ==
    /\ now = 0
    /\ configFile \in ConfigFiles
    /\ preexisting \in {0, max_backups - 1, max_backups}
    /\ backup_dir = OldRecords(preexisting)
    /\ issued = {}
    /\ nCreated = 0
    /\ last_op = NoOp

\* The clock reaches the next second.
Tick ==
    /\ now < MaxTime
    /\ now' = now + 1
    /\ last_op' = NoOp
    /\ UNCHANGED <<configFile, backup_dir, issued, nCreated, preexisting>>
    /\ UNCHANGED notStore

\* Somebody else (an update, an editor) rewrites or removes the live configuration.
WriteConfig ==
    /\ \E f \in ConfigFiles \ {configFile} : configFile' = f
    /\ last_op' = NoOp
    /\ UNCHANGED <<now, backup_dir, issued, nCreated, preexisting>>
    /\ UNCHANGED notStore

\* BackupManager.create_system_checkpoint, a whole call.
create_system_checkpoint ==
    /\ nCreated < MaxCreates
    /\ UNCHANGED notStore
    /\ LET checkpoint_id == new_checkpoint_id(now) IN
       IF configFile.kind = "invalid"
       THEN \* json.load raises; the except clause logs and re-raises
            /\ last_op' = [op |-> "create", id |-> checkpoint_id, ok |-> FALSE]
            /\ UNCHANGED <<now, configFile, backup_dir, issued, nCreated, preexisting>>
       ELSE LET checkpoint ==
                    SystemCheckpoint(checkpoint_id, read_configuration(configFile))
            IN  /\ backup_dir' =
                       _cleanup_old_backups(write_checkpoint_file(backup_dir, checkpoint))
                /\ issued' = issued \cup {checkpoint}
                /\ nCreated' = nCreated + 1
                /\ last_op' = [op |-> "create", id |-> checkpoint_id, ok |-> TRUE]
                /\ UNCHANGED <<now, configFile, preexisting>>

\* The ids a caller may pass to restore_from_checkpoint: any on disk, any issued in this
\* run, and one that never existed.
UnknownId == 0 - max_backups - 1
RestoreIds == Ids(backup_dir) \cup {c.checkpoint_id : c \in issued} \cup {UnknownId}

\* BackupManager.restore_from_checkpoint(checkpoint_id), a whole call.
restore_from_checkpoint(checkpoint_id) ==
    IF ~checkpoint_exists(backup_dir, checkpoint_id)
    THEN \* FileNotFoundError is raised and caught: return False
         /\ last_op' = [op |-> "restore", id |-> checkpoint_id, ok |-> FALSE]
         /\ UNCHANGED <<now, configFile, backup_dir, issued, nCreated, preexisting>>
    ELSE LET checkpoint == load_checkpoint(backup_dir, checkpoint_id) IN
         /\ configFile' = json_dump(checkpoint.configuration)
         /\ last_op' = [op |-> "restore", id |-> checkpoint_id, ok |-> TRUE]
         /\ UNCHANGED <<now, backup_dir, issued, nCreated, preexisting>>

Restore ==
    /\ \E id \in RestoreIds : restore_from_checkpoint(id)
    /\ UNCHANGED notStore

\* AutoRecoverySystem._cleanup_old_backups: pruning on its own ('cleanup_backups').
Prune ==
    /\ backup_dir' = _cleanup_old_backups(backup_dir)
    /\ last_op' = [op |-> "prune", id |-> 0, ok |-> TRUE]
    /\ UNCHANGED <<now, configFile, issued, nCreated, preexisting>>
    /\ UNCHANGED notStore

StoreNext ==
    \/ Tick
    \/ WriteConfig
    \/ create_system_checkpoint
    \/ Restore
    \/ Prune

(***************************************************************************)
(* Claims about the checkpoint store.                                      *)
(***************************************************************************)
\* The configuration document the program sees as live.
LiveConfiguration == read_configuration(configFile)

\* C1: whenever restore_from_checkpoint(id) has just returned success, the live
\* configuration equals the configuration that was live when each checkpoint returned
\* by create_system_checkpoint with that id was created.
C1_RestoreYieldsCreationConfig ==
    (last_op.op = "restore" /\ last_op.ok) =>
        \A c \in issued :
            c.checkpoint_id = last_op.id => LiveConfiguration = c.configuration

\* C3: whenever create_system_checkpoint has just returned, the directory holds at most
\* max_backups records, the record just created is among them, and the records are
\* exactly the most recently created ones: as many as were ever created, up to
\* max_backups (after 12 creations, 10).
C3_RetentionKeepsNewest ==
    (last_op.op = "create" /\ last_op.ok) =>
        /\ Len(backup_dir) <= max_backups
        /\ last_op.id \in Ids(backup_dir)
        /\ Len(backup_dir) = Min(max_backups, preexisting + nCreated)

\* C21: any two distinct successful create_system_checkpoint calls return different
\* checkpoint ids: as many different ids were returned as calls returned.
C21_CheckpointIdsUnique ==
    Cardinality({c.checkpoint_id : c \in issued}) = nCreated

(***************************************************************************)
(* The same two methods statement by statement, called from several        *)
(* threads: the recovery loop (_recovery_loop), a manual caller and the    *)
(* update manager (_apply_update) all reach the one checkpoint directory,  *)
(* each through a BackupManager that holds no lock.                        *)
(***************************************************************************)
InCreate(t) == pc[t] \in {"c_config", "c_save", "c_list", "c_unlink"}
InRestore(t) == pc[t] \in {"r_config"}

\* line 234: checkpoint_id = f"checkpoint_{int(time.time())}"
c_begin(t) ==
    /\ pc[t] = "idle"
    /\ UNCHANGED outsideStore
    /\ nCreated + Cardinality({u \in Threads : InCreate(u)}) < MaxConcCreates
    /\ local' = [local EXCEPT ![t] = [NoLocals EXCEPT !.checkpoint_id = new_checkpoint_id(now)]]
    /\ pc' = [pc EXCEPT ![t] = "c_config"]
    /\ UNCHANGED storeVars

\* lines 245-249: read the live configuration (json.load raises on a malformed file,
\* and the call ends in the except clause that re-raises).
c_config(t) ==
    /\ pc[t] = "c_config"
    /\ UNCHANGED outsideStore
    /\ IF configFile.kind = "invalid"
       THEN /\ pc' = [pc EXCEPT ![t] = "idle"]
            /\ local' = [local EXCEPT ![t] = NoLocals]
            /\ last_op' = [op |-> "create", id |-> local[t].checkpoint_id, ok |-> FALSE]
            /\ UNCHANGED <<now, configFile, backup_dir, issued, nCreated, preexisting>>
       ELSE /\ pc' = [pc EXCEPT ![t] = "c_save"]
            /\ local' = [local EXCEPT ![t].configuration = read_configuration(configFile)]
            /\ UNCHANGED storeVars

\* lines 272-274: write the record
c_save(t) ==
    /\ pc[t] = "c_save"
    /\ UNCHANGED outsideStore
    /\ backup_dir' = write_checkpoint_file(backup_dir,
                        SystemCheckpoint(local[t].checkpoint_id, local[t].configuration))
    /\ pc' = [pc EXCEPT ![t] = "c_list"]
    /\ UNCHANGED <<now, configFile, issued, nCreated, preexisting, last_op, local>>

\* lines 453-457: list and sort the records, take those beyond max_backups
c_list(t) ==
    /\ pc[t] = "c_list"
    /\ UNCHANGED outsideStore
    /\ local' = [local EXCEPT ![t].old = old_checkpoints(backup_dir)]
    /\ pc' = [pc EXCEPT ![t] = "c_unlink"]
    /\ UNCHANGED storeVars

\* lines 457-469 and 279-282: unlink the next old record (unlinking a record another
\* thread has removed raises, which ends the cleanup in its except clause); with none
\* left the call returns the checkpoint.
c_unlink(t) ==
    /\ pc[t] = "c_unlink"
    /\ UNCHANGED outsideStore
    /\ IF local[t].old = << >>
       THEN /\ pc' = [pc EXCEPT ![t] = "idle"]
            /\ local' = [local EXCEPT ![t] = NoLocals]
            /\ issued' = issued \cup
                   {SystemCheckpoint(local[t].checkpoint_id, local[t].configuration)}
            /\ nCreated' = nCreated + 1
            /\ last_op' = [op |-> "create", id |-> local[t].checkpoint_id, ok |-> TRUE]
            /\ UNCHANGED <<now, configFile, backup_dir, preexisting>>
       ELSE /\ IF checkpoint_exists(backup_dir, Head(local[t].old))
               THEN /\ backup_dir' = unlink(backup_dir, Head(local[t].old))
                    /\ local' = [local EXCEPT ![t].old = Tail(local[t].old)]
               ELSE /\ backup_dir' = backup_dir
                    /\ local' = [local EXCEPT ![t].old = << >>]
            /\ UNCHANGED <<now, configFile, issued, nCreated, preexisting, last_op, pc>>

\* lines 292-298: look the record up and load it
r_begin(t, checkpoint_id) ==
    /\ pc[t] = "idle"
    /\ UNCHANGED outsideStore
    /\ IF ~checkpoint_exists(backup_dir, checkpoint_id)
       THEN /\ last_op' = [op |-> "restore", id |-> checkpoint_id, ok |-> FALSE]
            /\ UNCHANGED <<now, configFile, backup_dir, issued, nCreated, preexisting>>
            /\ UNCHANGED threadVars
       ELSE /\ local' = [local EXCEPT ![t] =
                   [NoLocals EXCEPT !.checkpoint_id = checkpoint_id,
                       !.configuration = load_checkpoint(backup_dir, checkpoint_id).configuration]]
            /\ pc' = [pc EXCEPT ![t] = "r_config"]
            /\ UNCHANGED storeVars

\* lines 304-306 and 332: overwrite the live configuration and return True
r_config(t) ==
    /\ pc[t] = "r_config"
    /\ UNCHANGED outsideStore
    /\ configFile' = json_dump(local[t].configuration)
    /\ pc' = [pc EXCEPT ![t] = "idle"]
    /\ local' = [local EXCEPT ![t] = NoLocals]
    /\ last_op' = [op |-> "restore", id |-> local[t].checkpoint_id, ok |-> TRUE]
    /\ UNCHANGED <<now, backup_dir, issued, nCreated, preexisting>>

CreateBegin == \E t \in Threads : c_begin(t)
CreateConfig == \E t \in Threads : c_config(t)
CreateSave == \E t \in Threads : c_save(t)
CreateList == \E t \in Threads : c_list(t)
CreateUnlink == \E t \in Threads : c_unlink(t)
\* The ids the concurrent callers pass: those issued in this run, the newest record of an
\* earlier run, and one that never existed.
ConcRestoreIds == {c.checkpoint_id : c \in issued} \cup {0 - 1, UnknownId}
RestoreBegin == \E t \in Threads : \E id \in ConcRestoreIds : r_begin(t, id)
RestoreConfig == \E t \in Threads : r_config(t)

ConcNext ==
    \/ Tick
    \/ WriteConfig
    \/ CreateBegin
    \/ CreateConfig
    \/ CreateSave
    \/ CreateList
    \/ CreateUnlink
    \/ RestoreBegin
    \/ RestoreConfig

\* C2: creation and restoration are mutually exclusive: no two threads are inside
\* create_system_checkpoint or restore_from_checkpoint at the same time (a restore never
\* runs during a create, two creates never interleave).
C2_StoreOperationsExclusive ==
    \A t \in Threads : \A u \in Threads \ {t} :
        ~((InCreate(t) \/ InRestore(t)) /\ (InCreate(u) \/ InRestore(u)))

(***************************************************************************)
(* HEALTH MONITOR: SystemHealthMonitor                                     *)
(***************************************************************************)
MaxPasses == 3
\* line 157: the history keeps the last 100 reports.
max_history == 100

\* The probes, in the order they are registered.
ProbeNames == <<"disk_space", "database", "cache">>
ProbeNameSet == {ProbeNames[i] : i \in 1..Len(ProbeNames)}

\* What a probe call may do: return a dict with a status (with or without a 'message'
\* key; << >> stands for the missing key) or raise an Exception with a text.
ReturnPass == [kind |-> "return", status |-> "PASS", message |-> <<"ok">>]
ReturnFail == [kind |-> "return", status |-> "FAIL", message |-> <<"it failed">>]
ReturnWarn == [kind |-> "return", status |-> "WARN", message |-> << >>]
RaiseError == [kind |-> "raise", status |-> "none", message |-> <<"boom">>]
NotRun == [kind |-> "none", status |-> "none", message |-> << >>]
ProbeOutcomes == {ReturnPass, ReturnFail, ReturnWarn, RaiseError}

\* check_result.get('message', default)
get_message(check_result, default) ==
    IF check_result.message = << >> THEN <<default>> ELSE check_result.message

\* error_msg = f"Health check error: {str(e)}"
error_msg(e) == <<"Health check error: ">> \o e.message

\* register_health_check: a new name is added last, a known name is replaced in place.
register_health_check(hc, name, critical) ==
    LET info == [name |-> name, critical |-> critical, failure_count |-> 0]
    IN  IF \E i \in 1..Len(hc) : hc[i].name = name
        THEN [i \in 1..Len(hc) |-> IF hc[i].name = name THEN info ELSE hc[i]]
        ELSE Append(hc, info)

\* lines 73-82: the empty report and the two counters of a pass.
EmptyResults ==
    [overall_health |-> "HEALTHY", checks |-> << >>, critical_failures |-> << >>,
     warnings |-> << >>, n_critical |-> 0, n_warnings |-> 0]

\* Mutant of route_failure: every failure is listed in critical_failures, whatever the
\* probe's criticality (the counters are kept apart as before).
route_failure_lists_all_critical(res, info, critical_message, warning_message) ==
    IF info.critical
    THEN [res EXCEPT !.n_critical = @ + 1,
                     !.critical_failures = Append(@, [check |-> info.name,
                                                      message |-> critical_message,
                                                      failure_count |-> info.failure_count])]
    ELSE [res EXCEPT !.n_warnings = @ + 1,
                     !.critical_failures = Append(@, [check |-> info.name,
                                                      message |-> warning_message,
                                                      failure_count |-> info.failure_count])]

\* lines 100-113 and 126-139: count the failure and route it by the probe's criticality.
route_failure(res, info, critical_message, warning_message) ==
    IF info.critical
    THEN [res EXCEPT !.n_critical = @ + 1,
                     !.critical_failures = Append(@, [check |-> info.name,
                                                      message |-> critical_message,
                                                      failure_count |-> info.failure_count])]
    ELSE [res EXCEPT !.n_warnings = @ + 1,
                     !.warnings = Append(@, [check |-> info.name,
                                             message |-> warning_message,
                                             failure_count |-> info.failure_count])]

\* Mutant of on_pass: the PASS branch forgets to reset failure_count.
on_pass_without_reset(check_info, res, check_result) ==
    [info |-> check_info,
     res |-> [res EXCEPT !.checks = Append(@,
                 [name |-> check_info.name, status |-> "PASS",
                  message |-> get_message(check_result, "Check passed")])]]

\* lines 89-96: the probe returned status PASS.
on_pass(check_info, res, check_result) ==
    [info |-> [check_info EXCEPT !.failure_count = 0],
     res |-> [res EXCEPT !.checks = Append(@,
                 [name |-> check_info.name, status |-> "PASS",
                  message |-> get_message(check_result, "Check passed")])]]

\* lines 97-120: the probe returned another status.
on_not_pass(check_info, res, check_result) ==
    LET info == [check_info EXCEPT !.failure_count = @ + 1]
        routed == route_failure(res, info,
                      get_message(check_result, "Critical check failed"),
                      get_message(check_result, "Check failed"))
    IN  [info |-> info,
         res |-> [routed EXCEPT !.checks = Append(@,
                     [name |-> info.name, status |-> "FAIL",
                      message |-> get_message(check_result, "Check failed"),
                      failure_count |-> info.failure_count])]]

\* lines 122-145: the probe raised.
on_exception(check_info, res, e) ==
    LET info == [check_info EXCEPT !.failure_count = @ + 1]
        routed == route_failure(res, info, error_msg(e), error_msg(e))
    IN  [info |-> info,
         res |-> [routed EXCEPT !.checks = Append(@,
                     [name |-> info.name, status |-> "ERROR",
                      message |-> error_msg(e),
                      failure_count |-> info.failure_count])]]

\* Mutant of run_one_check: only status FAIL is a failure, WARN goes the way of PASS.
run_one_check_warn_passes(check_info, res, outcome) ==
    IF outcome.kind = "raise" THEN on_exception(check_info, res, outcome)
    ELSE IF outcome.status # "FAIL" THEN on_pass(check_info, res, outcome)
    ELSE on_not_pass(check_info, res, outcome)

\* lines 85-145: one iteration of the loop over the registry.
run_one_check(check_info, res, outcome) ==
    IF outcome.kind = "raise" THEN on_exception(check_info, res, outcome)
    ELSE IF outcome.status = "PASS" THEN on_pass(check_info, res, outcome)
    ELSE on_not_pass(check_info, res, outcome)

\* Mutant of run_checks_from: the try statement encloses the loop instead of the probe
\* call, so the first probe that raises ends the pass.
RECURSIVE run_checks_until_raise(_, _, _, _)
run_checks_until_raise(i, hc, res, outcomes) ==
    IF i > Len(hc) THEN [hc |-> hc, res |-> res]
    ELSE LET one == run_one_check(hc[i], res, outcomes[hc[i].name])
         IN  IF outcomes[hc[i].name].kind = "raise"
             THEN [hc |-> [hc EXCEPT ![i] = one.info], res |-> one.res]
             ELSE run_checks_until_raise(i + 1, [hc EXCEPT ![i] = one.info], one.res, outcomes)

\* lines 84-145: the loop, from entry i on.
RECURSIVE run_checks_from(_, _, _, _)
run_checks_from(i, hc, res, outcomes) ==
    IF i > Len(hc) THEN [hc |-> hc, res |-> res]
    ELSE LET one == run_one_check(hc[i], res, outcomes[hc[i].name])
         IN  run_checks_from(i + 1, [hc EXCEPT ![i] = one.info], one.res, outcomes)

\* Mutant of overall_health: DEGRADED from two warnings on (>= 2 for > 2).
overall_health_degraded_at_two(n_critical, n_warnings) ==
    IF n_critical > 0 THEN "CRITICAL"
    ELSE IF n_warnings >= 2 THEN "DEGRADED"
    ELSE IF n_warnings > 0 THEN "WARNING"
    ELSE "HEALTHY"

\* lines 147-153: the overall verdict from the two counters.
overall_health(n_critical, n_warnings) ==
    IF n_critical > 0 THEN "CRITICAL"
    ELSE IF n_warnings > 2 THEN "DEGRADED"
    ELSE IF n_warnings > 0 THEN "WARNING"
    ELSE "HEALTHY"

\* The registry after registering the first k probes, the first j of them as critical.
RECURSIVE Registry(_, _)
Registry(k, j) ==
    IF k = 0 THEN << >>
    ELSE register_health_check(Registry(k - 1, j), ProbeNames[k], k <= j)

Registered(hc) == {hc[i].name : i \in 1..Len(hc)}

\* A report as the history holds it: the results dict, identified by its 'timestamp'
\* (here the ordinal of the pass that produced it), with its verdict.
Report(timestamp, res) == [timestamp |-> timestamp, overall_health |-> res.overall_health]

\* Mutant of append_to_history: the newest report is dropped at capacity.
append_to_history_drop_newest(history, report) ==
    LET appended == Append(history, report)
    IN  IF Len(appended) > max_history
        THEN SubSeq(appended, 1, max_history)
        ELSE appended

\* lines 155-158: self.health_history.append(results); if len(...) > 100: pop(0)
append_to_history(history, report) ==
    LET appended == Append(history, report)
    IN  IF Len(appended) > max_history
        THEN Tail(appended)
        ELSE appended

\* SystemHealthMonitor.__init__ followed by the registrations of start-up.
HealthInit ==
    /\ \E k \in 0..Len(ProbeNames) : \E j \in 0..k : health_checks = Registry(k, j)
    /\ results = EmptyResults
    /\ passes = 0
    /\ last_outcomes = [n \in ProbeNameSet |-> NotRun]
    /\ passed_history = [n \in ProbeNameSet |-> << >>]
    /\ health_history = << >>
    /\ produced = << >>
    /\ blocked_in = "none"

\* The monitor when only the other components are exercised: the registry is empty.
HealthIdle ==
    /\ health_checks = << >>
    /\ results = EmptyResults
    /\ passes = 0
    /\ last_outcomes = [n \in ProbeNameSet |-> NotRun]
    /\ passed_history = [n \in ProbeNameSet |-> << >>]
    /\ health_history = << >>
    /\ produced = << >>
    /\ blocked_in = "none"

Passed(outcome) == outcome.kind = "return" /\ outcome.status = "PASS"

\* SystemHealthMonitor.run_health_checks, a whole call; each registered probe does one
\* of the things a probe may do.
run_health_checks ==
    /\ passes < MaxPasses
    /\ blocked_in = "none"
    /\ UNCHANGED blocked_in
    /\ \E outcomes \in [Registered(health_checks) -> ProbeOutcomes] :
          LET done == run_checks_from(1, health_checks, EmptyResults, outcomes)
          IN  /\ health_checks' = done.hc
              /\ results' = [done.res EXCEPT !.overall_health =
                                overall_health(done.res.n_critical, done.res.n_warnings)]
              /\ last_outcomes' = [n \in ProbeNameSet |->
                    IF n \in Registered(health_checks) THEN outcomes[n] ELSE NotRun]
              /\ passed_history' = [n \in ProbeNameSet |->
                    IF n \in Registered(health_checks)
                    THEN Append(passed_history[n], Passed(outcomes[n]))
                    ELSE passed_history[n]]
              /\ LET report == Report(Len(produced) + 1, results')
                 IN  /\ health_history' = append_to_history(health_history, report)
                     /\ produced' = Append(produced, report)
    /\ passes' = passes + 1
    /\ UNCHANGED notHealth

HealthNext == run_health_checks

\* SystemHealthMonitor.run_health_checks when the call of line 86 does not return for
\* the i-th probe: the probes before it have run and left their marks in the registry,
\* and the pass stays inside check_info['function']() with nothing to bound the call.
probe_never_returns ==
    /\ passes < MaxPasses
    /\ blocked_in = "none"
    /\ \E i \in 1..Len(health_checks) :
          LET before == SubSeq(health_checks, 1, i - 1)
          IN  \E outcomes \in [Registered(before) -> ProbeOutcomes] :
                 LET done == run_checks_from(1, before, EmptyResults, outcomes)
                 IN  /\ health_checks' =
                            done.hc \o SubSeq(health_checks, i, Len(health_checks))
                     /\ blocked_in' = health_checks[i].name
                     /\ last_outcomes' = [n \in ProbeNameSet |->
                            IF n \in Registered(before) THEN outcomes[n] ELSE NotRun]
                     /\ passed_history' = [n \in ProbeNameSet |->
                            IF n \in Registered(before)
                            THEN Append(passed_history[n], Passed(outcomes[n]))
                            ELSE passed_history[n]]
    /\ UNCHANGED <<results, passes, health_history, produced>>
    /\ UNCHANGED notHealth

HealthLiveNext ==
    \/ run_health_checks
    \/ probe_never_returns

(***************************************************************************)
(* Claims about the health monitor.                                        *)
(***************************************************************************)
\* The registry entry of a registered probe.
CheckInfo(n) ==
    LET i == CHOOSE j \in 1..Len(health_checks) : health_checks[j].name = n
    IN  health_checks[i]

\* The probes of the latest pass that did not pass, by criticality.
FailedProbes(critical) ==
    {n \in Registered(health_checks) :
        CheckInfo(n).critical = critical /\ ~Passed(last_outcomes[n])}

\* C5: the verdict of a pass is decided by its counts alone: CRITICAL if a critical
\* probe failed; otherwise DEGRADED if more than 2 non-critical probes failed; otherwise
\* WARNING if at least one did; otherwise HEALTHY.
C5_VerdictFromCounts ==
    passes > 0 =>
        results.overall_health =
            IF Cardinality(FailedProbes(TRUE)) >= 1 THEN "CRITICAL"
            ELSE IF Cardinality(FailedProbes(FALSE)) > 2 THEN "DEGRADED"
            ELSE IF Cardinality(FailedProbes(FALSE)) >= 1 THEN "WARNING"
            ELSE "HEALTHY"

\* A pass in which exactly three advisory probes and no critical probe failed.
C5_Witness ==
    /\ passes > 0
    /\ Cardinality(FailedProbes(FALSE)) = 3
    /\ FailedProbes(TRUE) = {}
    /\ results.overall_health = "DEGRADED"

\* The number of most recent passes, counted back from the latest, in which the probe
\* did not pass.
RECURSIVE TrailingFailures(_)
TrailingFailures(h) ==
    IF h = << >> \/ h[Len(h)] THEN 0
    ELSE 1 + TrailingFailures(SubSeq(h, 1, Len(h) - 1))

\* C6: after any sequence of passes, each probe's failure_count is the number of
\* consecutive most recent passes in which it did not pass (0 after a PASS, whatever
\* came before; one more after each FAIL, WARN or exception).
C6_FailureCountIsTrailingFailures ==
    \A n \in Registered(health_checks) :
        CheckInfo(n).failure_count = TrailingFailures(passed_history[n])

\* A probe that failed twice in a row and then passed: its count is back to 0.
C6_Witness ==
    \E n \in Registered(health_checks) :
        /\ Len(passed_history[n]) >= 3
        /\ LET k == Len(passed_history[n]) IN
              passed_history[n][k] /\ ~passed_history[n][k - 1] /\ ~passed_history[n][k - 2]
        /\ CheckInfo(n).failure_count = 0

\* The entries of a failure list that name a probe.
EntriesFor(list, n) == {i \in 1..Len(list) : list[i].check = n}

\* C10: a probe that raises is handled like a failing one and the pass goes on: the
\* pass returns a report with an entry for every registered probe, the raising probe's
\* failure_count has been incremented, and the failure is listed once, in
\* critical_failures for a critical probe and in warnings otherwise, with the exception
\* text in its message and the incremented count.
C10_RaisingProbeIsAFailure ==
    passes > 0 =>
        /\ [i \in 1..Len(results.checks) |-> results.checks[i].name] =
               [i \in 1..Len(health_checks) |-> health_checks[i].name]
        /\ \A n \in Registered(health_checks) :
              last_outcomes[n].kind = "raise" =>
                 LET info == CheckInfo(n)
                     mine == IF info.critical THEN results.critical_failures
                             ELSE results.warnings
                     other == IF info.critical THEN results.warnings
                              ELSE results.critical_failures
                 IN  /\ info.failure_count = TrailingFailures(passed_history[n])
                     /\ info.failure_count >= 1
                     /\ Cardinality(EntriesFor(mine, n)) = 1
                     /\ EntriesFor(other, n) = {}
                     /\ \A i \in EntriesFor(mine, n) :
                           /\ mine[i].message =
                                 <<"Health check error: ">> \o last_outcomes[n].message
                           /\ mine[i].failure_count = info.failure_count

\* The first of several probes is critical and raised, and the probes after it were run.
C10_Witness ==
    /\ passes > 0
    /\ Len(health_checks) >= 2
    /\ health_checks[1].critical
    /\ last_outcomes[health_checks[1].name].kind = "raise"
    /\ Len(results.checks) = Len(health_checks)
    /\ results.critical_failures # << >>
    /\ results.critical_failures[1].check = health_checks[1].name

\* The last n elements of a sequence.
LastN(seq, n) == SubSeq(seq, Len(seq) - n + 1, Len(seq))

\* C15: after every completed pass the history holds at most max_history (100) reports:
\* the most recent min(n, 100) of the n reports produced, in the order produced, the
\* report just returned last.
C15_HistoryKeepsLatestReports ==
    passes > 0 =>
        /\ Len(health_history) <= max_history
        /\ health_history = LastN(produced, Min(Len(produced), max_history))
        /\ health_history[Len(health_history)] = Report(Len(produced), results)

\* A pass has completed with the history already full: the oldest report was discarded.
C15_Witness ==
    /\ passes > 0
    /\ Len(produced) > max_history
    /\ Len(health_history) = max_history
    /\ health_history[1].timestamp = Len(produced) - max_history + 1

\* C28: in a pass whose verdict is DEGRADED, WARNING or HEALTHY the critical_failures
\* list is empty: the failures of advisory probes are listed as warnings only, so the
\* issue handling entered on DEGRADED finds no failure to classify and runs no plan.
C28_OnlyCriticalVerdictHasCriticalFailures ==
    (passes > 0 /\ results.overall_health \in {"DEGRADED", "WARNING", "HEALTHY"}) =>
        results.critical_failures = << >>

\* A DEGRADED pass: three advisory probes failed, all of them listed as warnings.
C28_Witness ==
    /\ passes > 0
    /\ results.overall_health = "DEGRADED"
    /\ Len(results.warnings) = 3
    /\ results.critical_failures = << >>

\* C19: a pass never stays inside a probe: whenever run_health_checks is waiting for a
\* probe to return, it eventually stops waiting (and goes on to the remaining probes and
\* its return).
C19_PassNeverStalls == (blocked_in # "none") ~> (blocked_in = "none")

(***************************************************************************)
(* FAILURE COUNTER UNDER TWO CALLERS: the body of the loop of              *)
(* run_health_checks for one probe, statement by statement, run by the     *)
(* monitoring loop's thread and by a manual caller at the same time.       *)
(* check_info['failure_count'] += 1 is a read of the entry, an addition    *)
(* and a write of the entry; a thread switch can fall between them.        *)
(***************************************************************************)
MaxExecutions == 2

HealthCallers == {"loop", "manual"}

NotCalling == [pc |-> "idle", loaded |-> 0, own |-> 0, reported |-> -1, runs |-> 0]

CountersInit ==
    /\ probe_entry = [failure_count |-> 0]
    /\ callers = [t \in HealthCallers |-> NotCalling]
    /\ increments = 0

\* lines 86-96: the probe is called and returns PASS: check_info['failure_count'] = 0.
probe_passes(t) ==
    /\ callers[t].pc = "idle"
    /\ callers[t].runs < MaxExecutions
    /\ probe_entry' = [probe_entry EXCEPT !.failure_count = 0]
    /\ increments' = 0
    /\ callers' = [callers EXCEPT ![t].runs = @ + 1, ![t].reported = -1]

\* lines 86-97 and 122-124: the probe is called and returns another status or raises;
\* the caller is about to run the += of line 98 (line 124).
probe_fails(t) ==
    /\ callers[t].pc = "idle"
    /\ callers[t].runs < MaxExecutions
    /\ callers' = [callers EXCEPT ![t].pc = "load", ![t].runs = @ + 1, ![t].reported = -1]
    /\ UNCHANGED <<probe_entry, increments>>

\* line 98, first half: check_info['failure_count'] is read.
load_count(t) ==
    /\ callers[t].pc = "load"
    /\ callers' = [callers EXCEPT ![t].pc = "store", ![t].loaded = probe_entry.failure_count]
    /\ UNCHANGED <<probe_entry, increments>>

\* line 98, second half: the value read, plus one, is written to the entry.
store_count(t) ==
    /\ callers[t].pc = "store"
    /\ probe_entry' = [probe_entry EXCEPT !.failure_count = callers[t].loaded + 1]
    /\ increments' = increments + 1
    /\ callers' = [callers EXCEPT ![t].pc = "report", ![t].own = callers[t].loaded + 1]

\* lines 106 and 119: 'failure_count': check_info['failure_count'] is read again for
\* the report.
report_count(t) ==
    /\ callers[t].pc = "report"
    /\ callers' = [callers EXCEPT ![t].pc = "idle", ![t].reported = probe_entry.failure_count]
    /\ UNCHANGED <<probe_entry, increments>>

ProbePasses ==
    /\ \E t \in HealthCallers : probe_passes(t)
    /\ UNCHANGED <<storeVars, threadVars, healthVars, classifyVars, recoveryVars, ioVars, loopVars>>
ProbeFails ==
    /\ \E t \in HealthCallers : probe_fails(t)
    /\ UNCHANGED <<storeVars, threadVars, healthVars, classifyVars, recoveryVars, ioVars, loopVars>>
LoadCount ==
    /\ \E t \in HealthCallers : load_count(t)
    /\ UNCHANGED <<storeVars, threadVars, healthVars, classifyVars, recoveryVars, ioVars, loopVars>>
StoreCount ==
    /\ \E t \in HealthCallers : store_count(t)
    /\ UNCHANGED <<storeVars, threadVars, healthVars, classifyVars, recoveryVars, ioVars, loopVars>>
ReportCount ==
    /\ \E t \in HealthCallers : report_count(t)
    /\ UNCHANGED <<storeVars, threadVars, healthVars, classifyVars, recoveryVars, ioVars, loopVars>>

CounterNext ==
    \/ ProbePasses
    \/ ProbeFails
    \/ LoadCount
    \/ StoreCount
    \/ ReportCount

\* C23: the failure counter is updated atomically under concurrent callers: every
\* failing execution of the probe adds exactly one to failure_count (the count is the
\* number of failing executions counted since it was last reset, none is lost), and the
\* failure_count a caller reports is the value its own increment produced.
C23_CounterUpdatesAtomic ==
    /\ probe_entry.failure_count = increments
    /\ \A t \in HealthCallers :
          callers[t].reported # -1 => callers[t].reported = callers[t].own

(***************************************************************************)
(* FAILURE CLASSIFIER: AutoRecoverySystem._classify_failure                *)
(* Texts are sequences of characters, so that lower() and the substring    *)
(* test 'token' in text are computed as Python computes them.              *)
(***************************************************************************)
\* The upper-case letters that occur in the texts of the model, and their lower case.
UpperChars == <<"C", "D", "F", "H", "I", "M", "N", "O", "P", "R", "T", "U">>
LowerChars == <<"c", "d", "f", "h", "i", "m", "n", "o", "p", "r", "t", "u">>

\* str.lower(), character by character.
lower_char(c) ==
    IF \E i \in 1..Len(UpperChars) : UpperChars[i] = c
    THEN LowerChars[CHOOSE i \in 1..Len(UpperChars) : UpperChars[i] = c]
    ELSE c

lower(text) == [i \in 1..Len(text) |-> lower_char(text[i])]

\* token in text: text has a contiguous run of characters equal to token.
contains(token, text) ==
    \E i \in 1..(Len(text) - Len(token) + 1) :
        SubSeq(text, i, i + Len(token) - 1) = token

TokDisk == <<"d", "i", "s", "k">>
TokMemory == <<"m", "e", "m", "o", "r", "y">>
TokFile == <<"f", "i", "l", "e">>
TokMissing == <<"m", "i", "s", "s", "i", "n", "g">>
TokCorruption == <<"c", "o", "r", "r", "u", "p", "t", "i", "o", "n">>

\* Mutant of _classify_failure: the memory test comes before the disk test.
_classify_failure_memory_first(failure) ==
    LET check_name == lower(failure.check)
        message == lower(failure.message)
    IN  IF contains(TokMemory, check_name) \/ contains(TokMemory, message)
        THEN "memory_critical"
        ELSE IF contains(TokDisk, check_name) \/ contains(TokDisk, message)
        THEN "disk_space_critical"
        ELSE IF \/ contains(TokFile, check_name)
                \/ contains(TokMissing, message)
                \/ contains(TokCorruption, message)
        THEN "file_corruption"
        ELSE "unknown_failure"

\* lines 668-680
_classify_failure(failure) ==
    LET check_name == lower(failure.check)
        message == lower(failure.message)
    IN  IF contains(TokDisk, check_name) \/ contains(TokDisk, message)
        THEN "disk_space_critical"
        ELSE IF contains(TokMemory, check_name) \/ contains(TokMemory, message)
        THEN "memory_critical"
        ELSE IF \/ contains(TokFile, check_name)
                \/ contains(TokMissing, message)
                \/ contains(TokCorruption, message)
        THEN "file_corruption"
        ELSE "unknown_failure"

\* The pieces the names and messages of the model are put together from (a text is one
\* piece followed by another, so a token may also straddle two pieces).
Pieces ==
    {<< >>,
     <<"D", "i", "s", "k">>,
     <<"d", "i", "s">>,
     <<"k">>,
     <<"M", "e", "m", "o", "r", "y">>,
     <<"f", "i", "l", "e">>,
     <<"M", "i", "s", "s", "i", "n", "g">>,
     <<"C", "O", "R", "R", "U", "P", "T", "I", "O", "N">>,
     <<"d", "a", "t", "a", "b", "a", "s", "e">>,
     <<"H", "e", "a", "l", "t", "h", " ", "c", "h", "e", "c", "k", " ">>}

Texts == {a \o b : a \in Pieces, b \in Pieces}

ClassifyIdle ==
    /\ failure_record = [check |-> << >>, message |-> << >>, failure_count |-> 1]
    /\ failure_type = "unclassified"

\* A failure record as run_health_checks builds it (lines 102-106, 128-132).
ClassifyInit ==
    /\ failure_record \in [check : Texts, message : Texts, failure_count : {1, 2}]
    /\ failure_type = "unclassified"

\* One call of _classify_failure.
Classify ==
    /\ failure_type = "unclassified"
    /\ failure_type' = _classify_failure(failure_record)
    /\ UNCHANGED failure_record
    /\ UNCHANGED notClassify

ClassifyNext == Classify

(***************************************************************************)
(* Claims about the classifier.                                            *)
(***************************************************************************)
\* A token occurs, in any letter case, in the text.
HasToken(token, text) == contains(token, lower(text))
\* A token occurs in the record's name or in its message.
InEither(token, rec) == HasToken(token, rec.check) \/ HasToken(token, rec.message)

MatchesDisk(rec) == InEither(TokDisk, rec)
MatchesMemory(rec) == InEither(TokMemory, rec)
\* A file, missing or corruption token occurs in the name or in the message.
MatchesFileTokens(rec) ==
    InEither(TokFile, rec) \/ InEither(TokMissing, rec) \/ InEither(TokCorruption, rec)

Categories == {"disk_space_critical", "memory_critical", "file_corruption", "unknown_failure"}

\* C7: the classifier is first-match-wins in the order disk, memory, file, unknown: a
\* record with a disk token is disk_space_critical whatever else it matches, one with a
\* memory token and no disk token is memory_critical whatever file tokens it has, one
\* with neither is file_corruption or unknown_failure, and the result is one category.
C7_FirstMatchWins ==
    failure_type # "unclassified" =>
        /\ failure_type \in Categories
        /\ MatchesDisk(failure_record) => failure_type = "disk_space_critical"
        /\ (~MatchesDisk(failure_record) /\ MatchesMemory(failure_record)) =>
               failure_type = "memory_critical"
        /\ (~MatchesDisk(failure_record) /\ ~MatchesMemory(failure_record)) =>
               failure_type \in {"file_corruption", "unknown_failure"}

\* A record that matches the disk, memory and file tokens at once has been classified.
C7_Witness ==
    /\ failure_type = "disk_space_critical"
    /\ MatchesDisk(failure_record)
    /\ MatchesMemory(failure_record)
    /\ MatchesFileTokens(failure_record)

\* C8: tokens are matched without regard to case as substrings of both the name and
\* the message: a record without disk or memory token is file_corruption exactly when
\* its name or its message holds a file, missing or corruption token, and
\* unknown_failure exactly when neither field holds any token.
C8_FileTokensInEitherField ==
    (failure_type # "unclassified"
        /\ ~MatchesDisk(failure_record) /\ ~MatchesMemory(failure_record)) =>
        /\ MatchesFileTokens(failure_record) => failure_type = "file_corruption"
        /\ ~MatchesFileTokens(failure_record) => failure_type = "unknown_failure"

(***************************************************************************)
(* RECOVERY: AutoRecoverySystem._handle_health_issues,                     *)
(* _execute_recovery_plan and _execute_recovery_action                     *)
(***************************************************************************)
MaxFailures == 3

RecoveryPlan(id, type, steps) ==
    [plan_id |-> id, failure_type |-> type, recovery_steps |-> steps]

NoPlan == RecoveryPlan("none", "none", << >>)

\* Mutant of recovery_plans: the catalog also holds a default plan for unknown_failure.
recovery_plans_with_default ==
    [disk_space_critical |->
        RecoveryPlan("disk_cleanup", "DISK_SPACE_CRITICAL",
            <<"cleanup_logs", "cleanup_backups", "compress_data", "alert_admin">>),
     memory_critical |->
        RecoveryPlan("memory_cleanup", "MEMORY_CRITICAL",
            <<"garbage_collect", "restart_modules", "reduce_monitoring", "alert_admin">>),
     file_corruption |->
        RecoveryPlan("file_restore", "FILE_CORRUPTION",
            <<"identify_corrupted", "restore_from_backup", "verify_integrity",
              "restart_system">>),
     unknown_failure |->
        RecoveryPlan("default_alert", "UNKNOWN_FAILURE", <<"alert_admin">>)]

\* _setup_recovery_plans (lines 539-585): the catalog, keyed by failure type; a step is
\* modelled by its action.
recovery_plans ==
    [disk_space_critical |->
        RecoveryPlan("disk_cleanup", "DISK_SPACE_CRITICAL",
            <<"cleanup_logs", "cleanup_backups", "compress_data", "alert_admin">>),
     memory_critical |->
        RecoveryPlan("memory_cleanup", "MEMORY_CRITICAL",
            <<"garbage_collect", "restart_modules", "reduce_monitoring", "alert_admin">>),
     file_corruption |->
        RecoveryPlan("file_restore", "FILE_CORRUPTION",
            <<"identify_corrupted", "restore_from_backup", "verify_integrity",
              "restart_system">>)]

\* Plans a caller may hand to _execute_recovery_plan besides those of the catalog.
OtherPlans ==
    {RecoveryPlan("abc", "TEST", <<"compress_data", "cleanup_logs", "verify_integrity">>),
     RecoveryPlan("restore_only", "TEST", <<"restore_from_backup", "verify_integrity">>)}

CatalogPlans == {recovery_plans[k] : k \in DOMAIN recovery_plans}

\* The actions _execute_recovery_action has a branch for (lines 711-728).
ActionHandlers ==
    {"cleanup_logs", "cleanup_backups", "compress_data", "garbage_collect",
     "restart_modules", "reduce_monitoring", "restore_from_backup", "verify_integrity",
     "alert_admin"}

\* line 730: an action that matches no branch falls to "else: return False".
has_handler(action) == action \in ActionHandlers

\* The results _execute_recovery_action(action) may return (lines 708-735): the
\* handlers of lines 737-832 return True unless something they call raises; an action
\* without a branch returns False.
\*   cleanup_logs: False when stat or unlink raises;
\*   alert_admin: False when the logger raises;
\*   restore_from_backup: False without a checkpoint, else what the restore returns;
\*   cleanup_backups, compress_data, garbage_collect, restart_modules,
\*   reduce_monitoring, verify_integrity: True.
action_results(action, dir) ==
    IF ~has_handler(action) THEN {FALSE}
    ELSE IF action \in {"cleanup_logs", "alert_admin"} THEN {TRUE, FALSE}
    ELSE IF action = "restore_from_backup" THEN {dir # << >>}
    ELSE {TRUE}

\* max(checkpoint_files, key=st_mtime) of _restore_latest_backup.
latest_checkpoint(dir) == dir[Len(dir)]

\* What the handler of an action does to the checkpoint store and the live configuration.
action_effect(action) ==
    IF action = "cleanup_backups"
    THEN /\ backup_dir' = _cleanup_old_backups(backup_dir)
         /\ last_op' = [op |-> "prune", id |-> 0, ok |-> TRUE]
         /\ UNCHANGED <<now, configFile, issued, nCreated, preexisting>>
    ELSE IF action = "restore_from_backup" /\ backup_dir # << >>
    THEN /\ restore_from_checkpoint(latest_checkpoint(backup_dir).checkpoint_id)
    ELSE UNCHANGED storeVars

\* Mutant of abort_plan: a failed step does not end the plan.
abort_plan_never(success) == FALSE

\* lines 694-697: if not success: return False
abort_plan(success) == ~success

\* The failure records of the model: the four default probes and a critical probe the
\* embedding application registered after them, each with a message it reports.
FailureRecords ==
    <<[check |-> <<"d", "i", "s", "k", "_", "s", "p", "a", "c", "e">>, message |-> <<"D", "i", "s", "k", " ", "u", "s", "a", "g", "e", " ", "c", "r", "i", "t", "i", "c", "a", "l", ":", " ", "9", "7", "%">>, failure_count |-> 1],
      [check |-> <<"m", "e", "m", "o", "r", "y", "_", "u", "s", "a", "g", "e">>, message |-> <<"M", "e", "m", "o", "r", "y", " ", "u", "s", "a", "g", "e", " ", "c", "r", "i", "t", "i", "c", "a", "l", ":", " ", "9", "7", "%">>, failure_count |-> 1],
      [check |-> <<"c", "r", "i", "t", "i", "c", "a", "l", "_", "f", "i", "l", "e", "s">>, message |-> <<"C", "r", "i", "t", "i", "c", "a", "l", " ", "f", "i", "l", "e", "s", " ", "m", "i", "s", "s", "i", "n", "g", ":", " ", "[", ".", ".", ".", "]">>, failure_count |-> 1],
      [check |-> <<"d", "a", "t", "a", "b", "a", "s", "e">>, message |-> <<"D", "a", "t", "a", "b", "a", "s", "e", " ", "e", "r", "r", "o", "r", ":", " ", "l", "o", "c", "k", "e", "d">>, failure_count |-> 1],
      [check |-> <<"d", "i", "s", "k", "_", "i", "o">>, message |-> <<"H", "e", "a", "l", "t", "h", " ", "c", "h", "e", "c", "k", " ", "e", "r", "r", "o", "r", ":", " ", "t", "i", "m", "e", "o", "u", "t">>, failure_count |-> 1]>>

\* The critical_failures lists of a pass: the failing probes in registration order.
RECURSIVE Pick(_, _)
Pick(records, chosen) ==
    IF records = << >> THEN << >>
    ELSE IF Len(records) \in chosen
         THEN Append(Pick(SubSeq(records, 1, Len(records) - 1), chosen), records[Len(records)])
         ELSE Pick(SubSeq(records, 1, Len(records) - 1), chosen)

FailureLists ==
    {Pick(FailureRecords, chosen) : chosen \in
        {c \in SUBSET (1..Len(FailureRecords)) : Cardinality(c) <= MaxFailures}}

RecoveryInit ==
    /\ rpc = "idle"
    /\ critical_failures = << >>
    /\ fidx = 0
    /\ cur_plan = NoPlan
    /\ step = 1
    /\ plan_result = "none"
    /\ step_log = << >>
    /\ exec_log = << >>
    /\ plan_log = << >>

\* lines 635-640: _handle_health_issues is entered with the report of a pass.
handle_begin ==
    /\ rpc = "idle"
    /\ \E failures \in FailureLists : critical_failures' = failures
    /\ fidx' = 1
    /\ rpc' = "classify"
    /\ exec_log' = << >>
    /\ plan_log' = << >>
    /\ UNCHANGED <<cur_plan, step, plan_result, step_log>>
    /\ UNCHANGED <<storeVars, threadVars, healthVars, classifyVars, counterVars, ioVars, loopVars>>

\* lines 640-651: the next failure is classified and its plan looked up; without a plan
\* the loop goes on to the failure after it, and past the last failure the call returns.
handle_next ==
    /\ rpc = "classify"
    /\ IF fidx > Len(critical_failures)
       THEN /\ rpc' = "idle"
            /\ UNCHANGED <<fidx, cur_plan, step, plan_result, step_log>>
       ELSE LET type == _classify_failure(critical_failures[fidx]) IN
            IF type \in DOMAIN recovery_plans
            THEN /\ cur_plan' = recovery_plans[type]
                 /\ step' = 1
                 /\ plan_result' = "running"
                 /\ step_log' = << >>
                 /\ rpc' = "execute"
                 /\ UNCHANGED fidx
            ELSE /\ fidx' = fidx + 1
                 /\ UNCHANGED <<rpc, cur_plan, step, plan_result, step_log>>
    /\ UNCHANGED <<critical_failures, exec_log, plan_log>>
    /\ UNCHANGED <<storeVars, threadVars, healthVars, classifyVars, counterVars, ioVars, loopVars>>

\* _execute_recovery_plan called on its own with a plan.
execute_plan_begin ==
    /\ rpc = "idle"
    /\ \E plan \in CatalogPlans \cup OtherPlans : cur_plan' = plan
    /\ critical_failures' = << >>
    /\ fidx' = 0
    /\ step' = 1
    /\ plan_result' = "running"
    /\ step_log' = << >>
    /\ exec_log' = << >>
    /\ plan_log' = << >>
    /\ rpc' = "execute"
    /\ UNCHANGED <<storeVars, threadVars, healthVars, classifyVars, counterVars, ioVars, loopVars>>

\* Where control goes when _execute_recovery_plan returns: back into the loop of
\* _handle_health_issues, or to the caller that ran the plan on its own.
plan_returns(result) ==
    /\ plan_result' = result
    /\ plan_log' = Append(plan_log, [failure |-> fidx, plan_id |-> cur_plan.plan_id,
                                     success |-> result = "success"])
    /\ IF fidx = 0
       THEN rpc' = "idle" /\ fidx' = fidx
       ELSE rpc' = "classify" /\ fidx' = fidx + 1
    /\ UNCHANGED step

\* lines 685-701: one iteration of the loop over the plan's steps (the handler call of
\* line 692 included), or the return True after the last step.
execute_step ==
    /\ rpc = "execute"
    /\ IF step > Len(cur_plan.recovery_steps)
       THEN /\ plan_returns("success")
            /\ UNCHANGED <<step_log, exec_log>>
            /\ UNCHANGED storeVars
       ELSE LET action == cur_plan.recovery_steps[step] IN
            \E success \in action_results(action, backup_dir) :
                /\ action_effect(action)
                /\ step_log' = Append(step_log, [action |-> action, ok |-> success])
                /\ exec_log' = Append(exec_log,
                                   [failure |-> fidx, action |-> action, ok |-> success,
                                    handled |-> has_handler(action)])
                /\ IF abort_plan(success)
                   THEN plan_returns("failure")
                   ELSE /\ step' = step + 1
                        /\ UNCHANGED <<rpc, fidx, plan_result, plan_log>>
    /\ UNCHANGED <<critical_failures, cur_plan>>
    /\ UNCHANGED <<threadVars, healthVars, classifyVars, counterVars, ioVars, loopVars>>

RecoveryNext ==
    \/ handle_begin
    \/ handle_next
    \/ execute_plan_begin
    \/ execute_step

(***************************************************************************)
(* Claims about the recovery executor.                                     *)
(***************************************************************************)
\* C4: _execute_recovery_plan runs the steps in list order and stops at the first step
\* that returns failure: the handler calls of a plan run are the plan's first actions in
\* their order, only the last call made can be a failed one, a failed call ends the run
\* with result failure (no later step is executed), and the result is success only when
\* every step of the plan was run and returned success.
C4_StepsInOrderStopAtFirstFailure ==
    LET steps == cur_plan.recovery_steps
        n == Len(step_log)
    IN  /\ n <= Len(steps)
        /\ \A k \in 1..n : step_log[k].action = steps[k]
        /\ \A k \in 1..(n - 1) : step_log[k].ok
        /\ (n >= 1 /\ ~step_log[n].ok) => plan_result = "failure"
        /\ plan_result = "failure" => (n >= 1 /\ ~step_log[n].ok)
        /\ plan_result = "success" => (n = Len(steps) /\ \A k \in 1..n : step_log[k].ok)

\* A plan of three steps or more returned failure after its first step succeeded and its
\* second failed; no third handler call was made.
C4_Witness ==
    /\ plan_result = "failure"
    /\ rpc = "idle"
    /\ Len(cur_plan.recovery_steps) >= 3
    /\ Len(step_log) = 2
    /\ step_log[1].ok
    /\ ~step_log[2].ok

\* _handle_health_issues has returned after going through a list of failures.
HandlingDone == rpc = "idle" /\ fidx = Len(critical_failures) + 1

\* C9: a critical failure classified unknown_failure has no plan: no handler is invoked
\* and no plan is run for it, and the handling goes on with the failures after it (once
\* the handling has returned, every failure of another category has had its plan run).
C9_UnknownFailureNotActedOn ==
    /\ \A k \in 1..Len(exec_log) :
          exec_log[k].failure >= 1 =>
             _classify_failure(critical_failures[exec_log[k].failure]) # "unknown_failure"
    /\ \A k \in 1..Len(plan_log) :
          plan_log[k].failure >= 1 =>
             _classify_failure(critical_failures[plan_log[k].failure]) # "unknown_failure"
    /\ HandlingDone =>
          \A i \in 1..Len(critical_failures) :
             _classify_failure(critical_failures[i]) # "unknown_failure" =>
                \E k \in 1..Len(plan_log) : plan_log[k].failure = i

\* A handling has returned whose list holds an unknown failure followed by a failure with
\* a plan: the plan of the later one was run, none for the unknown one.
C9_Witness ==
    /\ HandlingDone
    /\ \E i \in 1..Len(critical_failures) : \E j \in (i + 1)..Len(critical_failures) :
          /\ _classify_failure(critical_failures[i]) = "unknown_failure"
          /\ \E k \in 1..Len(plan_log) : plan_log[k].failure = j
          /\ \A k \in 1..Len(exec_log) : exec_log[k].failure # i

\* C18: during one call of _handle_health_issues each recovery plan is executed at most
\* once: no two plan runs of the same handling are runs of the same plan.
C18_PlanAtMostOncePerPass ==
    \A a \in 1..Len(plan_log) : \A b \in 1..Len(plan_log) :
        (a # b /\ plan_log[a].failure >= 1 /\ plan_log[b].failure >= 1) =>
            plan_log[a].plan_id # plan_log[b].plan_id

\* C25: every step of every plan of the catalog dispatches to an action handler: no
\* step executed for a catalog plan is rejected by _execute_recovery_action as an
\* action it has no branch for.
C25_EveryCatalogStepHasHandler ==
    \A k \in 1..Len(exec_log) :
        (exec_log[k].failure >= 1 \/ cur_plan \in CatalogPlans) => exec_log[k].handled

\* C27: the file_corruption plan restores: once the plan has been run for a critical
\* failure classified file_corruption while a checkpoint exists, its restore_from_backup step has been executed (restoring
\* the checkpoint with the newest modification time); and a restore_from_backup step
\* executed without any checkpoint returns failure and restores nothing.
C27_FileCorruptionPlanRestores ==
    /\ \A k \in 1..Len(plan_log) :
          (/\ plan_log[k].failure >= 1
           /\ _classify_failure(critical_failures[plan_log[k].failure]) = "file_corruption"
           /\ backup_dir # << >>) =>
             \E j \in 1..Len(exec_log) :
                /\ exec_log[j].failure = plan_log[k].failure
                /\ exec_log[j].action = "restore_from_backup"
    /\ \A j \in 1..Len(exec_log) :
          (exec_log[j].action = "restore_from_backup" /\ backup_dir = << >>) =>
             ~exec_log[j].ok /\ last_op.op # "restore"

(***************************************************************************)
(* Claims about a health pass and the plan looked up for its failures.     *)
(***************************************************************************)
\* The characters of the probe names, as the classifier reads them.
ProbeNameText ==
    [disk_space |-> <<"d", "i", "s", "k", "_", "s", "p", "a", "c", "e">>,
     database |-> <<"d", "a", "t", "a", "b", "a", "s", "e">>,
     cache |-> <<"c", "a", "c", "h", "e">>]

\* lines 640-645: the plan _handle_health_issues looks up for an entry of
\* critical_failures (NoPlan when the catalog has none for its category).
plan_for(failure) ==
    LET type == _classify_failure([check |-> ProbeNameText[failure.check],
                                   message |-> failure.message])
    IN  IF type \in DOMAIN recovery_plans THEN recovery_plans[type] ELSE NoPlan

\* C29: a probe result whose status is not PASS, WARN included, is handled as a failure:
\* the probe's failure_count is incremented, the probe is reported with status FAIL,
\* and a critical probe is listed once in critical_failures, which makes the verdict
\* CRITICAL (so that the issue handling is entered); for the disk probe the plan looked
\* up for that entry is the disk clean-up plan.
C29_NonPassIsFailure ==
    passes > 0 =>
        \A n \in Registered(health_checks) :
            (last_outcomes[n].kind = "return" /\ last_outcomes[n].status # "PASS") =>
                LET info == CheckInfo(n) IN
                /\ info.failure_count = TrailingFailures(passed_history[n])
                /\ info.failure_count >= 1
                /\ \E i \in 1..Len(results.checks) :
                      /\ results.checks[i].name = n
                      /\ results.checks[i].status = "FAIL"
                      /\ results.checks[i].failure_count = info.failure_count
                /\ info.critical =>
                      /\ Cardinality(EntriesFor(results.critical_failures, n)) = 1
                      /\ results.overall_health = "CRITICAL"
                      /\ n = "disk_space" =>
                            \A i \in EntriesFor(results.critical_failures, n) :
                               plan_for(results.critical_failures[i]).plan_id = "disk_cleanup"

\* The critical disk probe returned WARN after having passed: it is counted and listed
\* as a critical failure and the verdict is CRITICAL.
C29_Witness ==
    /\ passes > 1
    /\ "disk_space" \in Registered(health_checks)
    /\ CheckInfo("disk_space").critical
    /\ last_outcomes["disk_space"] = ReturnWarn
    /\ CheckInfo("disk_space").failure_count = 1
    /\ results.overall_health = "CRITICAL"
    /\ \E i \in 1..Len(results.checks) :
          results.checks[i].name = "disk_space" /\ results.checks[i].status = "FAIL"

(***************************************************************************)
(* CHECKPOINT STORE WITH ITS FILES AND I/O ERRORS: create_system_checkpoint *)
(* and restore_from_checkpoint as whole calls again, now with the sub-      *)
(* artifacts, the file hashes, the logger and the errors the file system    *)
(* can raise, and with what the caller receives.                            *)
(***************************************************************************)
\* Contents a critical file may have; "absent" when it does not exist.
CoreFiles == {"absent", "v1"}

\* What copying the database or archiving the logs can do in one call: the source does
\* not exist, the sub-artifact is written, or the write raises.
SubArtifactOutcomes == {"absent", "written", "error"}

\* What saving the record can do: it is written; open(..., 'wb') raises; or the file is
\* opened (created or truncated) and pickle.dump raises before the record is complete.
DumpOutcomes == {"written", "open_error", "write_error"}

\* BackupManager._backup_database: the path of the copy, "" when there is no database
\* and "" again when the copy raised (except Exception: pass).
_backup_database(checkpoint_id, db) ==
    IF db = "written" THEN "database.db" ELSE ""

\* BackupManager._backup_logs: the path of the archive, "" when there are no logs and
\* "" again when archiving raised.
_backup_logs(checkpoint_id, logs) ==
    IF logs = "written" THEN "logs.tar.gz" ELSE ""

\* The entry of a file that did not exist when the hashes were taken.
NotListed == [kind |-> "notlisted", doc |-> "none", fmt |-> "none"]

\* BackupManager._calculate_file_hash: SHA256 of the bytes, here the bytes themselves.
_calculate_file_hash(file) == file

\* BackupManager._calculate_file_hashes: the hashes of the critical files that exist.
_calculate_file_hashes(config, core) ==
    [core |-> IF core = "absent" THEN "notlisted" ELSE _calculate_file_hash(core),
     config |-> IF config.kind = "absent" THEN NotListed ELSE _calculate_file_hash(config)]

\* BackupManager._verify_file_integrity: one issue per listed file that is missing or
\* whose hash differs, in the order of the listing.
_verify_file_integrity(expected_hashes, config, core) ==
    (IF expected_hashes.core = "notlisted" THEN << >>
     ELSE IF core = "absent" THEN << [file |-> "prometheus_core.py", issue |-> "file missing"] >>
     ELSE IF _calculate_file_hash(core) # expected_hashes.core
          THEN << [file |-> "prometheus_core.py", issue |-> "hash mismatch"] >>
          ELSE << >>)
    \o
    (IF expected_hashes.config = NotListed THEN << >>
     ELSE IF config.kind = "absent"
          THEN << [file |-> "prometheus_config.json", issue |-> "file missing"] >>
     ELSE IF _calculate_file_hash(config) # expected_hashes.config
          THEN << [file |-> "prometheus_config.json", issue |-> "hash mismatch"] >>
          ELSE << >>)

\* The SystemCheckpoint of lines 260-269 with the fields the calls below use.
SystemCheckpointRecord(id, configuration, file_hashes, database_backup, logs_backup) ==
    [checkpoint_id |-> id, configuration |-> configuration, file_hashes |-> file_hashes,
     database_backup |-> database_backup, logs_backup |-> logs_backup, partial |-> FALSE]

\* The file left by open(checkpoint_file, 'wb') when pickle.dump did not complete.
PartialFile(id) ==
    [checkpoint_id |-> id, configuration |-> EmptyDoc,
     file_hashes |-> [core |-> "notlisted", config |-> NotListed],
     database_backup |-> "", logs_backup |-> "", partial |-> TRUE]

NoCheckpoint == PartialFile(UnknownId)

\* The sub-artifact files a creation writes: f"{checkpoint_id}_database.db" when the
\* database copy was written, f"{checkpoint_id}_logs.tar.gz" when the archive was.
Artifact(id, kind) == [checkpoint_id |-> id, kind |-> kind]
artifacts_written(checkpoint_id, db, logs) ==
    {Artifact(checkpoint_id, "database") : x \in {y \in {db} : y = "written"}}
    \cup {Artifact(checkpoint_id, "logs") : x \in {y \in {logs} : y = "written"}}

\* lines 457-465: for every record unlinked, glob(f"{checkpoint_id}_*") is unlinked too.
cleanup_artifacts(files, dir) ==
    LET old == old_checkpoints(dir)
    IN  {a \in files : \A i \in 1..Len(old) : a.checkpoint_id # old[i]}

\* Records left by earlier runs, each with its database backup and log archive.
OldIoRecords(n) ==
    [i \in 1..n |->
        SystemCheckpointRecord(i - n - 1, EmptyDoc,
            [core |-> "notlisted", config |-> NotListed], "database.db", "logs.tar.gz")]
OldArtifacts(n) ==
    {Artifact(i - n - 1, kind) : i \in 1..n, kind \in {"database", "logs"}}
NoIssues == << >>

\* What a call gives its caller.
Returns(ok, checkpoint) ==
    [kind |-> "return", ok |-> ok, checkpoint |-> checkpoint, error |-> "none"]
Raises(error) ==
    [kind |-> "raise", ok |-> FALSE, checkpoint |-> NoCheckpoint, error |-> error]
NothingReturned ==
    [kind |-> "none", ok |-> FALSE, checkpoint |-> NoCheckpoint, error |-> "none"]

\* "if self.prometheus: self.prometheus.logger.system_logger.<level>(...)": the lines
\* reach the log only when a core was given.
logged(lines) == IF prometheus = "logger" THEN lines ELSE << >>
LogLine(level, text, issues) == [level |-> level, text |-> text, issues |-> issues]

\* The live state a restore writes to.
LiveState == [config |-> configFile, db |-> liveDb, logs |-> liveLogs]
NoLiveState == [config |-> AbsentFile, db |-> "live", logs |-> "live"]

NoCall == [op |-> "none", id |-> 0, dir_before |-> << >>, db |-> "absent",
           logs |-> "absent", dump |-> "written", issues |-> NoIssues,
           failed_at |-> "none", verified |-> FALSE, before |-> NoLiveState]

IoInit ==
    /\ coreFile \in CoreFiles
    /\ prometheus \in {"logger", "None"}
    /\ log = << >>
    /\ returned = NothingReturned
    /\ artifacts \in {OldArtifacts(0), OldArtifacts(max_backups)}
    /\ liveDb = "live"
    /\ liveLogs = "live"
    /\ io_call = NoCall

IoIdle == IoInit /\ coreFile = "absent" /\ prometheus = "None" /\ artifacts = {}

\* Somebody else rewrites or removes the critical file.
EditCore ==
    /\ \E f \in CoreFiles \ {coreFile} : coreFile' = f
    /\ log' = << >>
    /\ returned' = NothingReturned
    /\ io_call' = NoCall
    /\ UNCHANGED <<artifacts, liveDb, liveLogs>>
    /\ UNCHANGED <<prometheus, storeVars, threadVars, healthVars, classifyVars, counterVars, recoveryVars>>
    /\ UNCHANGED loopVars

\* BackupManager.create_system_checkpoint, lines 232-287, a whole call; db, logs and dump
\* are what the file system does to the three writes of the call.
create_checkpoint_io(db, logs, dump) ==
    LET checkpoint_id == new_checkpoint_id(now)
        call == [op |-> "create", id |-> checkpoint_id, dir_before |-> backup_dir,
                 db |-> db, logs |-> logs, dump |-> dump, issues |-> NoIssues,
                 failed_at |-> "none", verified |-> FALSE, before |-> LiveState]
        failed(error) ==
            /\ log' = logged(<< LogLine("error", "Error creating checkpoint", NoIssues) >>)
            /\ returned' = Raises(error)
    IN  /\ io_call' = call
        /\ IF configFile.kind = "invalid"
           THEN \* json.load raises; the except clause logs and re-raises
                /\ failed("JSONDecodeError")
                /\ UNCHANGED <<backup_dir, artifacts>>
           ELSE LET checkpoint ==
                        SystemCheckpointRecord(checkpoint_id,
                            read_configuration(configFile),
                            _calculate_file_hashes(configFile, coreFile),
                            _backup_database(checkpoint_id, db),
                            _backup_logs(checkpoint_id, logs))
                    saved == write_checkpoint_file(backup_dir, checkpoint)
                    with_new == artifacts \cup artifacts_written(checkpoint_id, db, logs)
                IN  IF dump = "open_error"
                    THEN /\ failed("OSError")
                         /\ artifacts' = with_new
                         /\ UNCHANGED backup_dir
                    ELSE IF dump = "write_error"
                    THEN /\ failed("OSError")
                         /\ artifacts' = with_new
                         /\ backup_dir' =
                                write_checkpoint_file(backup_dir, PartialFile(checkpoint_id))
                    ELSE /\ backup_dir' = _cleanup_old_backups(saved)
                         /\ artifacts' = cleanup_artifacts(with_new, saved)
                         /\ log' = logged(<< LogLine("info", "System checkpoint created",
                                                     NoIssues) >>)
                         /\ returned' = Returns(TRUE, checkpoint)

CreateIO ==
    /\ \E db \in SubArtifactOutcomes, logs \in SubArtifactOutcomes, dump \in DumpOutcomes :
           create_checkpoint_io(db, logs, dump)
    /\ UNCHANGED <<now, configFile, issued, nCreated, preexisting, last_op>>
    /\ UNCHANGED <<coreFile, prometheus, liveDb, liveLogs>>
    /\ UNCHANGED <<threadVars, healthVars, classifyVars, counterVars, recoveryVars, loopVars>>

\* What the three writes of a restore can do.
ConfigWrites == {"written", "open_error", "write_error"}
DbCopies == {"copied", "error"}
LogUnpacks == {"unpacked", "error"}

\* The steps of a restore in the order of lines 303-321.
RestoreOrder == <<"config", "database", "logs", "integrity">>
StepIndex(s) == CHOOSE i \in 1..Len(RestoreOrder) : RestoreOrder[i] = s

\* Mutant of reached: each step is tried whatever happened to the steps before it.
reached_despite_error(s, failed_at) == TRUE

\* One try block spans the steps and nothing is undone: a step is reached when no step
\* before it raised.
reached(s, failed_at) ==
    failed_at = "none" \/ StepIndex(s) <= StepIndex(failed_at)

\* checkpoint.<x>_backup and os.path.exists(checkpoint.<x>_backup)
has_backup(checkpoint, path, kind) ==
    path # "" /\ Artifact(checkpoint.checkpoint_id, kind) \in artifacts

\* BackupManager.restore_from_checkpoint, lines 289-337, a whole call; cfg, dbc and lg
\* are what the file system does to the writes of the call.
restore_checkpoint_io(checkpoint_id, cfg, dbc, lg) ==
    LET call(issues, failed_at, verified) ==
            [op |-> "restore", id |-> checkpoint_id, dir_before |-> backup_dir,
             db |-> "absent", logs |-> "absent", dump |-> "written", issues |-> issues,
             failed_at |-> failed_at, verified |-> verified, before |-> LiveState]
        error_line == LogLine("error", "Error restoring checkpoint", NoIssues)
        not_loaded ==
            \* except Exception: log the error, return False
            /\ log' = logged(<< error_line >>)
            /\ returned' = Returns(FALSE, NoCheckpoint)
            /\ io_call' = call(NoIssues, "load", FALSE)
            /\ UNCHANGED <<configFile, liveDb, liveLogs>>
    IN  IF ~checkpoint_exists(backup_dir, checkpoint_id)
        THEN not_loaded     \* raise FileNotFoundError, caught by the except clause
        ELSE LET checkpoint == load_checkpoint(backup_dir, checkpoint_id) IN
             IF checkpoint.partial
             THEN not_loaded     \* pickle.load raises on the incomplete file
             ELSE LET has_db == has_backup(checkpoint, checkpoint.database_backup, "database")
                      has_logs == has_backup(checkpoint, checkpoint.logs_backup, "logs")
                      failed_at ==
                          IF cfg # "written" THEN "config"
                          ELSE IF has_db /\ dbc = "error" THEN "database"
                          ELSE IF has_logs /\ lg = "error" THEN "logs"
                          ELSE "none"
                      restored ==
                          IF cfg = "written" THEN json_dump(checkpoint.configuration)
                          ELSE IF cfg = "write_error" THEN InvalidFile
                          ELSE configFile
                      verified == reached("integrity", failed_at)
                      integrity_issues ==
                          IF verified
                          THEN _verify_file_integrity(checkpoint.file_hashes, restored,
                                                      coreFile)
                          ELSE NoIssues
                  IN  /\ configFile' = restored
                      /\ liveDb' = IF reached("database", failed_at) /\ has_db /\ dbc = "copied"
                                   THEN "restored" ELSE liveDb
                      /\ liveLogs' = IF reached("logs", failed_at) /\ has_logs
                                     THEN (IF lg = "unpacked" THEN "restored" ELSE "removed")
                                     ELSE liveLogs
                      /\ log' = logged(
                             << LogLine("info", "Starting restore", NoIssues) >>
                             \o (IF integrity_issues # << >>
                                 THEN << LogLine("warning", "File integrity issues",
                                                 integrity_issues) >>
                                 ELSE << >>)
                             \o (IF failed_at = "none"
                                 THEN << LogLine("info", "Restore completed", NoIssues) >>
                                 ELSE << error_line >>))
                      /\ returned' = Returns(failed_at = "none", NoCheckpoint)
                      /\ io_call' = call(integrity_issues, failed_at, verified)

\* The ids passed to restore_from_checkpoint here: the oldest record, the newest record
\* and an id that never existed.
IoRestoreIds ==
    {backup_dir[i].checkpoint_id : i \in {1, Len(backup_dir)} \cap DOMAIN backup_dir}
    \cup {UnknownId}

\* A restore whose writes all succeed.
RestoreIO ==
    /\ \E id \in IoRestoreIds :
           restore_checkpoint_io(id, "written", "copied", "unpacked")
    /\ UNCHANGED <<now, backup_dir, issued, nCreated, preexisting, last_op>>
    /\ UNCHANGED <<coreFile, prometheus, artifacts>>
    /\ UNCHANGED <<threadVars, healthVars, classifyVars, counterVars, recoveryVars, loopVars>>

\* A restore one of whose writes raises.
RestoreFails ==
    /\ \E id \in IoRestoreIds, cfg \in ConfigWrites, dbc \in DbCopies, lg \in LogUnpacks :
           /\ cfg # "written" \/ dbc = "error" \/ lg = "error"
           /\ restore_checkpoint_io(id, cfg, dbc, lg)
    /\ UNCHANGED <<now, backup_dir, issued, nCreated, preexisting, last_op>>
    /\ UNCHANGED <<coreFile, prometheus, artifacts>>
    /\ UNCHANGED <<threadVars, healthVars, classifyVars, counterVars, recoveryVars, loopVars>>

\* The system goes on writing to its database and its logs.
SystemRuns ==
    /\ liveDb # "live" \/ liveLogs # "live"
    /\ liveDb' = "live"
    /\ liveLogs' = "live"
    /\ log' = << >>
    /\ returned' = NothingReturned
    /\ io_call' = NoCall
    /\ UNCHANGED <<coreFile, prometheus, artifacts>>
    /\ UNCHANGED <<storeVars, threadVars, healthVars, classifyVars, counterVars, recoveryVars, loopVars>>

IoNext ==
    \/ EditCore
    \/ CreateIO
    \/ RestoreIO

RestoreNext ==
    \/ CreateIO
    \/ RestoreIO
    \/ RestoreFails
    \/ SystemRuns

(***************************************************************************)
(* Claims about the calls with their files and errors.                     *)
(***************************************************************************)
\* C11: whenever restore_from_checkpoint has just been called with an id that has no
\* checkpoint record, what the caller received is a not-found error.
C11_UnknownIdIsNotFoundError ==
    (io_call.op = "restore" /\ ~checkpoint_exists(io_call.dir_before, io_call.id)) =>
        (returned.kind = "raise" /\ returned.error = "FileNotFoundError")

\* C12: whenever create_system_checkpoint has just been called and the database copy or
\* the log archive could not be written, the call raised an I/O error, returned no
\* checkpoint, and the directory holds the records it held before the call.
C12_SubArtifactFailureFailsCreate ==
    (io_call.op = "create" /\ (io_call.db = "error" \/ io_call.logs = "error")) =>
        /\ returned.kind = "raise"
        /\ backup_dir = io_call.dir_before

\* C13: whenever create_system_checkpoint has just failed (it raised), the *.checkpoint
\* files of the directory are the ones that were there before the call.
C13_FailedCreateLeavesRecordsUnchanged ==
    (io_call.op = "create" /\ returned.kind = "raise") =>
        backup_dir = io_call.dir_before

\* C14: whenever restore_from_checkpoint has just found integrity discrepancies, it
\* returned success, and the list of discrepancies is in what the caller received or
\* in the log.
C14_DiscrepanciesReportedNotFatal ==
    (io_call.op = "restore" /\ io_call.issues # NoIssues) =>
        /\ returned.kind = "return" /\ returned.ok
        /\ \E i \in 1..Len(log) : log[i].issues = io_call.issues

\* C22: every database-backup and log-archive file of the directory belongs to a
\* checkpoint record that is on disk.
C22_NoOrphanedArtifacts ==
    \A a \in artifacts : checkpoint_exists(backup_dir, a.checkpoint_id)

\* C24: restore is applied in the order configuration, database, logs, integrity check,
\* without rollback: when a write of a restore raised, the call returned failure, the
\* steps before the failing one have taken effect on the live state, the failing step
\* left what it had done so far, and the steps after it were not performed.
C24_RestoreStopsAtFailingStep ==
    (io_call.op = "restore" /\ io_call.failed_at \notin {"none", "load"}) =>
        LET checkpoint == load_checkpoint(io_call.dir_before, io_call.id)
            has_db == has_backup(checkpoint, checkpoint.database_backup, "database")
            before == io_call.before
            f == io_call.failed_at
        IN  /\ returned.kind = "return" /\ ~returned.ok
            /\ ~io_call.verified /\ io_call.issues = NoIssues
            /\ f = "config" =>
                  /\ configFile \in {before.config, InvalidFile}
                  /\ liveDb = before.db /\ liveLogs = before.logs
            /\ f = "database" =>
                  /\ configFile = json_dump(checkpoint.configuration)
                  /\ liveDb = before.db /\ liveLogs = before.logs
            /\ f = "logs" =>
                  /\ configFile = json_dump(checkpoint.configuration)
                  /\ has_db => liveDb = "restored"
                  /\ liveLogs = "removed"

\* A restore failed at the database copy after it had overwritten the configuration.
C24_Witness ==
    /\ io_call.op = "restore"
    /\ io_call.failed_at = "database"
    /\ ~returned.ok
    /\ configFile # io_call.before.config
    /\ liveLogs = "live"

\* C26: when a checkpoint is restored while the critical files are as they were when it
\* was created (their hashes right before the restore are the ones the record stores),
\* the integrity check of the restore reports no discrepancy, also not for the
\* configuration file the restore rewrites.
C26_IntegritySymmetric ==
    (/\ io_call.op = "restore" /\ io_call.failed_at = "none" /\ io_call.verified
     /\ checkpoint_exists(io_call.dir_before, io_call.id)
     /\ load_checkpoint(io_call.dir_before, io_call.id).file_hashes =
            _calculate_file_hashes(io_call.before.config, coreFile)) =>
        io_call.issues = NoIssues

(***************************************************************************)
(* MONITORING LOOP: start_auto_recovery, stop_auto_recovery and the        *)
(* threads running _recovery_loop, statement by statement. What the health *)
(* pass, the plans and the checkpoint creation do inside is modelled above; *)
(* here each is a call that returns, raises, or does not return.           *)
(***************************************************************************)
MaxStarts == 2
MaxPlans == 2

\* Every start_auto_recovery creates a thread; thread k is the one of the k-th call.
LoopThreads == 1..MaxStarts

\* health_results['overall_health'] of a pass.
Verdicts == {"HEALTHY", "WARNING", "DEGRADED", "CRITICAL"}

NotStarted ==
    [pc |-> "none", plans_left |-> 0, caught |-> "none", had_error |-> FALSE,
     running_at_exit |-> FALSE, due |-> FALSE, was_due |-> FALSE, retry |-> FALSE,
     attempt |-> "none"]

LoopInit ==
    /\ running = FALSE
    /\ recovery_thread = 0
    /\ starts = 0
    /\ loops = [t \in LoopThreads |-> NotStarted]

\* The thread moves to a statement; when it leaves the loop, what self.running was.
goto(t, label) ==
    loops' = [loops EXCEPT ![t].pc = label,
                           ![t].running_at_exit = (label = "done") /\ running]

\* Mutant of after_exception: an exception in the loop body ends the loop.
after_exception_terminates == "done"

\* lines 630-633: except Exception: log, time.sleep(120), then the loop goes on.
after_exception == "backoff"

\* lines 587-591: running = True; a new thread is created and started.
start_auto_recovery ==
    /\ starts < MaxStarts
    /\ running' = TRUE
    /\ starts' = starts + 1
    /\ recovery_thread' = starts + 1
    /\ loops' = [loops EXCEPT ![starts + 1].pc = "head"]
    /\ UNCHANGED <<storeVars, threadVars, healthVars, classifyVars, counterVars, recoveryVars, ioVars>>

\* lines 596-600: running = False; join(timeout=10) returns when the thread created last
\* has ended or after ten seconds, whichever comes first.
stop_auto_recovery ==
    /\ running' = FALSE
    /\ UNCHANGED <<recovery_thread, starts, loops>>
    /\ UNCHANGED <<storeVars, threadVars, healthVars, classifyVars, counterVars, recoveryVars, ioVars>>

\* line 609: while self.running
loop_head(t) ==
    /\ loops[t].pc = "head"
    /\ IF running THEN goto(t, "health") ELSE goto(t, "done")

\* line 612 returned a report; line 615 tests its verdict and enters
\* _handle_health_issues, whose list of failures asks for some number of plans.
health_returns(t) ==
    /\ loops[t].pc = "health"
    /\ \E verdict \in Verdicts :
          IF verdict \in {"CRITICAL", "DEGRADED"}
          THEN \E n \in 0..MaxPlans :
                  loops' = [loops EXCEPT ![t].pc = "issues", ![t].plans_left = n]
          ELSE goto(t, "checkpoint")

\* line 612 raised an Exception: the except clause of line 630.
health_raises(t) ==
    /\ loops[t].pc = "health"
    /\ loops' = [loops EXCEPT ![t].pc = after_exception,
                              ![t].caught = "body",
                              ![t].had_error = TRUE,
                              ![t].running_at_exit = (after_exception = "done") /\ running]

\* line 612 does not return: a probe called at line 86 never returns, and nothing
\* bounds the call.
health_never_returns(t) ==
    /\ loops[t].pc = "health"
    /\ goto(t, "in_probe")

\* line 651: _execute_recovery_plan is entered.
plan_begin(t) ==
    /\ loops[t].pc = "issues"
    /\ loops[t].plans_left > 0
    /\ goto(t, "plan")

\* _execute_recovery_plan returns (True or False).
plan_end(t) ==
    /\ loops[t].pc = "plan"
    /\ loops' = [loops EXCEPT ![t].pc = "issues", ![t].plans_left = @ - 1]

\* _handle_health_issues returns (its own except clause swallows every Exception).
issues_return(t) ==
    /\ loops[t].pc = "issues"
    /\ loops[t].plans_left = 0
    /\ goto(t, "checkpoint")

\* Mutant of timer_after_attempt: last_checkpoint is set whether or not the creation
\* returned.
timer_after_attempt_always_reset(is_due, created) == FALSE

\* lines 619-622: whether more than 3600 s have passed since last_checkpoint once the
\* if statement is through: last_checkpoint = time.time() runs only after
\* create_system_checkpoint has returned.
timer_after_attempt(is_due, created) == is_due /\ ~created

\* lines 619-625: when an hour has passed a checkpoint is created; a creation that
\* raises is logged, and the tick goes on to its sleep. The clock is read at line 619:
\* the hour is over if it was over at the last test and no creation has succeeded since
\* (due), or if it has run out in the meantime (passed).
checkpoint_step(t) ==
    /\ loops[t].pc = "checkpoint"
    /\ \E passed \in BOOLEAN, created \in BOOLEAN :
          LET is_due == loops[t].due \/ passed
          IN  loops' = [loops EXCEPT
                  ![t].pc = "sleep",
                  ![t].caught = IF is_due /\ ~created THEN "checkpoint" ELSE @,
                  ![t].had_error = @ \/ (is_due /\ ~created),
                  ![t].was_due = is_due,
                  ![t].retry = loops[t].due,
                  ![t].attempt = IF ~is_due THEN "none"
                                 ELSE IF created THEN "created" ELSE "failed",
                  ![t].due = timer_after_attempt(is_due, created)]

\* line 628 (time.sleep(60)) or line 633 (time.sleep(120)) returns: back to line 609.
sleep_ends(t) ==
    /\ loops[t].pc \in {"sleep", "backoff"}
    /\ loops' = [loops EXCEPT ![t].pc = "head", ![t].caught = "none",
                              ![t].was_due = FALSE, ![t].retry = FALSE,
                              ![t].attempt = "none"]

\* One statement of thread t.
loop_thread(t) ==
    /\ \/ loop_head(t)
       \/ health_returns(t)
       \/ health_raises(t)
       \/ health_never_returns(t)
       \/ plan_begin(t)
       \/ plan_end(t)
       \/ issues_return(t)
       \/ checkpoint_step(t)
       \/ sleep_ends(t)
    /\ UNCHANGED <<running, recovery_thread, starts>>
    /\ UNCHANGED <<storeVars, threadVars, healthVars, classifyVars, counterVars, recoveryVars, ioVars>>

LoopHead == \E t \in LoopThreads : loop_thread(t) /\ loop_head(t)
HealthReturns == \E t \in LoopThreads : loop_thread(t) /\ health_returns(t)
HealthRaises == \E t \in LoopThreads : loop_thread(t) /\ health_raises(t)
HealthNeverReturns == \E t \in LoopThreads : loop_thread(t) /\ health_never_returns(t)
PlanBegin == \E t \in LoopThreads : loop_thread(t) /\ plan_begin(t)
PlanEnd == \E t \in LoopThreads : loop_thread(t) /\ plan_end(t)
IssuesReturn == \E t \in LoopThreads : loop_thread(t) /\ issues_return(t)
CheckpointStep == \E t \in LoopThreads : loop_thread(t) /\ checkpoint_step(t)
SleepEnds == \E t \in LoopThreads : loop_thread(t) /\ sleep_ends(t)

LoopNext ==
    \/ start_auto_recovery
    \/ stop_auto_recovery
    \/ LoopHead
    \/ HealthReturns
    \/ HealthRaises
    \/ HealthNeverReturns
    \/ PlanBegin
    \/ PlanEnd
    \/ IssuesReturn
    \/ CheckpointStep
    \/ SleepEnds

\* Every started thread that can take a step eventually takes one.
LoopFairness == \A t \in LoopThreads : WF_vars(loop_thread(t))

(***************************************************************************)
(* Claims about the monitoring loop.                                       *)
(***************************************************************************)
\* The threads inside _execute_recovery_plan.
Executing == {t \in LoopThreads : loops[t].pc = "plan"}

\* C16: whatever start_auto_recovery and stop_auto_recovery calls were made, at most one
\* thread is inside _execute_recovery_plan at any time.
C16_OnePlanAtATime == Cardinality(Executing) <= 1

\* C17: a thread leaves the loop only by finding self.running false at line 609, never
\* because of a failure in a tick: after an exception in the loop body it is in the
\* back-off sleep, after a failed checkpoint creation in the normal sleep, and from
\* either it goes on to the next test of line 609.
C17_FailureNeverEndsLoop ==
    \A t \in LoopThreads :
        /\ loops[t].pc = "done" => (~loops[t].running_at_exit /\ loops[t].caught = "none")
        /\ loops[t].caught = "body" => loops[t].pc = "backoff"
        /\ loops[t].caught = "checkpoint" => loops[t].pc = "sleep"

\* A thread that caught an exception in an earlier tick is running the health pass of a
\* later tick while running is true.
C17_Witness ==
    \E t \in LoopThreads :
        /\ running
        /\ loops[t].had_error
        /\ loops[t].caught = "none"
        /\ loops[t].pc = "health"

\* Threads that were started and have not ended.
Alive == {t \in LoopThreads : loops[t].pc \notin {"none", "done"}}

\* C20: once stop_auto_recovery has set running to false and no start can follow, every
\* loop thread eventually terminates.
C20_ShutdownReachesStopped ==
    (~running /\ starts = MaxStarts) ~> (Alive = {})

\* C30: periodic checkpointing is independent of health and retried on failure: in
\* every tick that comes to the test of line 619 (each tick whose health pass returned a
\* verdict, whatever it was and whatever plans were run), create_system_checkpoint is
\* attempted exactly when more than 3600 s have passed since the last successful
\* periodic checkpoint (or the start of the loop); a failed attempt leaves the timer
\* run out, a successful one restarts it, and after a failed attempt the next such
\* tick attempts again.
C30_CheckpointDueIsAttempted ==
    \A t \in LoopThreads :
        loops[t].pc = "sleep" =>
            /\ loops[t].was_due <=> loops[t].attempt \in {"created", "failed"}
            /\ loops[t].retry => loops[t].attempt \in {"created", "failed"}
            /\ loops[t].attempt = "failed" => loops[t].due
            /\ loops[t].attempt = "created" => ~loops[t].due

\* A tick whose attempt failed is followed by a tick that attempts again and fails
\* again: the timer is still run out.
C30_Witness ==
    \E t \in LoopThreads :
        /\ loops[t].pc = "sleep"
        /\ loops[t].retry
        /\ loops[t].attempt = "failed"
        /\ loops[t].due

ThreadsInit ==
    /\ pc = [t \in Threads |-> "idle"]
    /\ local = [t \in Threads |-> NoLocals]

\* The checkpoint store when only the other components are exercised.
StoreIdle == StoreInit /\ preexisting = 0 /\ configFile = AbsentFile

\* The checkpoint store, one call at a time.
Init == StoreInit /\ ThreadsInit /\ HealthIdle /\ ClassifyIdle /\ RecoveryInit /\ CountersInit /\ IoIdle /\ LoopInit
Next == StoreNext
Spec == Init /\ [][Next]_vars

\* The health monitor, pass after pass.
HealthSpecInit ==
    StoreIdle /\ ThreadsInit /\ HealthInit /\ ClassifyIdle /\ RecoveryInit /\ CountersInit /\ IoIdle /\ LoopInit
SpecHealth == HealthSpecInit /\ [][HealthNext]_vars

\* The reports of n earlier passes in which every probe passed.
OldReports(n) == [i \in 1..n |-> [timestamp |-> i, overall_health |-> "HEALTHY"]]

\* The health monitor late in a run: one or two probes registered, the history one
\* report short of full or full after passes that all passed; the other histories of
\* the model start here.
HistoryInit ==
    /\ \E k \in 1..2 : \E j \in 0..k : health_checks = Registry(k, j)
    /\ results = EmptyResults
    /\ passes = 0
    /\ last_outcomes = [n \in ProbeNameSet |-> NotRun]
    /\ passed_history = [n \in ProbeNameSet |-> << >>]
    /\ \E n \in {max_history - 1, max_history} :
           health_history = OldReports(n) /\ produced = OldReports(n)
    /\ blocked_in = "none"
HistorySpecInit ==
    StoreIdle /\ ThreadsInit /\ HistoryInit /\ ClassifyIdle /\ RecoveryInit /\ CountersInit /\ IoIdle /\ LoopInit
SpecHistory == HistorySpecInit /\ [][HealthNext]_vars

\* The health monitor with one or two probes, any of which may not return; a pass that
\* can go on does go on.
HealthLiveInit ==
    /\ HealthInit /\ Len(health_checks) \in 1..2
    /\ StoreIdle /\ ThreadsInit /\ ClassifyIdle /\ RecoveryInit /\ CountersInit /\ IoIdle /\ LoopInit
SpecHealthLive ==
    HealthLiveInit /\ [][HealthLiveNext]_vars /\ WF_vars(HealthLiveNext)

\* The checkpoint store under concurrent callers, the directory one record short of full.
ConcInit == Init /\ preexisting = max_backups - 1
SpecConc == ConcInit /\ [][ConcNext]_vars
\* The classifier applied to one failure record.
ClassifySpecInit ==
    StoreIdle /\ ThreadsInit /\ HealthIdle /\ ClassifyInit /\ RecoveryInit /\ CountersInit /\ IoIdle /\ LoopInit
SpecClassify == ClassifySpecInit /\ [][ClassifyNext]_vars

\* The recovery executor: handling after handling, plan after plan.
RecoverySpecInit ==
    /\ StoreInit /\ preexisting \in {0, max_backups} /\ configFile.fmt # "indent2"
    /\ ThreadsInit /\ HealthIdle /\ ClassifyIdle /\ RecoveryInit /\ CountersInit /\ IoIdle /\ LoopInit
SpecRecovery == RecoverySpecInit /\ [][RecoveryNext]_vars

\* The checkpoint store with its files and I/O errors, within one second of the clock.
IoSpecInit ==
    /\ now = 0
    /\ configFile \in ConfigFiles
    /\ preexisting \in {0, max_backups}
    /\ backup_dir = OldIoRecords(preexisting)
    /\ issued = {}
    /\ nCreated = 0
    /\ last_op = NoOp
    /\ artifacts = OldArtifacts(preexisting)
    /\ ThreadsInit /\ HealthIdle /\ ClassifyIdle /\ RecoveryInit /\ CountersInit /\ IoInit /\ LoopInit
SpecIo == IoSpecInit /\ [][IoNext]_vars

\* Restores whose writes may raise, of checkpoints created in this run.
RestoreSpecInit ==
    /\ IoSpecInit
    /\ preexisting = 0
    /\ configFile = AbsentFile
    /\ coreFile = "v1"
    /\ prometheus = "logger"
SpecRestore == RestoreSpecInit /\ [][RestoreNext]_vars

\* One probe's failure counter under the loop's thread and a manual caller.
CounterSpecInit ==
    StoreIdle /\ ThreadsInit /\ HealthIdle /\ ClassifyIdle /\ RecoveryInit /\ CountersInit /\ IoIdle /\ LoopInit
SpecCounter == CounterSpecInit /\ [][CounterNext]_vars

\* The monitoring loop under start and stop calls.
LoopSpecInit ==
    StoreIdle /\ ThreadsInit /\ HealthIdle /\ ClassifyIdle /\ RecoveryInit /\ CountersInit /\ IoIdle /\ LoopInit
SpecLoop == LoopSpecInit /\ [][LoopNext]_vars

\* The same with the threads scheduled fairly.
SpecLoopLive == LoopSpecInit /\ [][LoopNext]_vars /\ LoopFairness
====
